---------------------------- MODULE Spec2Model ----------------------------
(***************************************************************************)
(* mqtt-log-client.py: a callback-driven MQTT traffic logger.              *)
(*                                                                         *)
(* Text (Python str) is a sequence of code points; a payload (Python      *)
(* bytes) is a sequence of byte values 0..255.  The process position pc    *)
(* names the source line about to run.                                     *)
(***************************************************************************)
EXTENDS Integers, Sequences, FiniteSets, TLC

-----------------------------------------------------------------------------
(* Bounds of the model *)

\* longest payload, in bytes, of the messages the decoding specification draws
MaxPayloadLen == 3
\* deliveries of a message to on_message_with_log, over all runs
MaxMsgs == 2
\* invocations of on_connect within one run (first connect and reconnects)
MaxConnEvents == 2
\* runs of the program on the same log path
MaxRuns == 2

-----------------------------------------------------------------------------
(* Text helpers *)

RECURSIVE Concat(_)
\* f-string concatenation of a sequence of texts
Concat(parts) ==
    IF parts = <<>> THEN <<>> ELSE Head(parts) \o Concat(Tail(parts))

RECURSIVE CountOf(_, _)
\* occurrences of code point c in text s
CountOf(c, s) ==
    IF s = <<>> THEN 0
    ELSE (IF Head(s) = c THEN 1 ELSE 0) + CountOf(c, Tail(s))

RECURSIVE SeqsUpTo(_, _)
\* all sequences over S of length at most n
SeqsUpTo(S, n) ==
    IF n = 0 THEN {<<>>}
    ELSE LET shorter == SeqsUpTo(S, n - 1)
         IN  shorter \cup {Append(s, x) : s \in shorter, x \in S}

RECURSIVE IntToText(_)
\* str(n) of a non-negative int: its decimal digits
IntToText(n) ==
    IF n < 10 THEN <<48 + n>>
    ELSE Append(IntToText(n \div 10), 48 + (n % 10))

\* str(b) of a bool
BoolToText(b) ==
    IF b THEN <<84, 114, 117, 101>> ELSE <<70, 97, 108, 115, 101>>

HexDigits == <<48, 49, 50, 51, 52, 53, 54, 55, 56, 57, 97, 98, 99, 100, 101, 102>>

-----------------------------------------------------------------------------
(* bytes.decode('utf-8'), strict *)

IsCont(b) == b >= 128 /\ b <= 191

\* number of bytes of the well-formed UTF-8 sequence starting at bs[i], 0 if
\* the bytes there are not well-formed (truncated, bad lead or continuation
\* byte, overlong form, surrogate, above U+10FFFF)
Utf8SeqLen(bs, i) ==
    LET b0 == bs[i]
        n  == Len(bs)
    IN  IF b0 < 128 THEN 1
        ELSE IF b0 >= 194 /\ b0 <= 223
            THEN IF i + 1 <= n /\ IsCont(bs[i + 1]) THEN 2 ELSE 0
        ELSE IF b0 >= 224 /\ b0 <= 239
            THEN IF /\ i + 2 <= n
                    /\ IsCont(bs[i + 1]) /\ IsCont(bs[i + 2])
                    /\ (b0 = 224 => bs[i + 1] >= 160)
                    /\ (b0 = 237 => bs[i + 1] <= 159)
                 THEN 3 ELSE 0
        ELSE IF b0 >= 240 /\ b0 <= 244
            THEN IF /\ i + 3 <= n
                    /\ IsCont(bs[i + 1]) /\ IsCont(bs[i + 2]) /\ IsCont(bs[i + 3])
                    /\ (b0 = 240 => bs[i + 1] >= 144)
                    /\ (b0 = 244 => bs[i + 1] <= 143)
                 THEN 4 ELSE 0
        ELSE 0

\* code point of the well-formed sequence of k bytes starting at bs[i]
Utf8CodePoint(bs, i, k) ==
    IF k = 1 THEN bs[i]
    ELSE IF k = 2 THEN (bs[i] - 192) * 64 + (bs[i + 1] - 128)
    ELSE IF k = 3 THEN (bs[i] - 224) * 4096 + (bs[i + 1] - 128) * 64
                       + (bs[i + 2] - 128)
    ELSE (bs[i] - 240) * 262144 + (bs[i + 1] - 128) * 4096
         + (bs[i + 2] - 128) * 64 + (bs[i + 3] - 128)

RECURSIVE Utf8From(_, _)
\* decoding of bs from position i on: [ok, text]; ok = FALSE is
\* UnicodeDecodeError
Utf8From(bs, i) ==
    IF i > Len(bs) THEN [ok |-> TRUE, text |-> <<>>]
    ELSE LET k == Utf8SeqLen(bs, i)
         IN  IF k = 0 THEN [ok |-> FALSE, text |-> <<>>]
             ELSE LET rest == Utf8From(bs, i + k)
                  IN  [ok   |-> rest.ok,
                       text |-> IF rest.ok
                                THEN <<Utf8CodePoint(bs, i, k)>> \o rest.text
                                ELSE <<>>]

Utf8Decode(bs) == Utf8From(bs, 1)

-----------------------------------------------------------------------------
(* str(bytes): what an f-string puts for {msg.payload} *)

\* the quote repr(bytes) uses: " when the bytes hold ' and no ", else '
ReprQuote(bs) ==
    IF CountOf(39, bs) > 0 /\ CountOf(34, bs) = 0 THEN 34 ELSE 39

\* one byte inside the quotes of repr(bytes)
ReprByte(b, quote) ==
    IF b = quote \/ b = 92 THEN <<92, b>>
    ELSE IF b = 9 THEN <<92, 116>>
    ELSE IF b = 10 THEN <<92, 110>>
    ELSE IF b = 13 THEN <<92, 114>>
    ELSE IF b < 32 \/ b >= 127
        THEN <<92, 120, HexDigits[(b \div 16) + 1], HexDigits[(b % 16) + 1]>>
    ELSE <<b>>

RECURSIVE ReprBody(_, _)
ReprBody(bs, quote) ==
    IF bs = <<>> THEN <<>>
    ELSE ReprByte(Head(bs), quote) \o ReprBody(Tail(bs), quote)

\* str(bs) of a bytes object: b'...'
BytesToStr(bs) ==
    LET q == ReprQuote(bs) IN <<98, q>> \o ReprBody(bs, q) \o <<q>>


-----------------------------------------------------------------------------
(* Messages *)

\* CONNACK return codes handed to on_connect: 0 accepted, non-zero refused
ReturnCodes == {0, 1, 5}

\* bytes the payloads of the decoding specification are made of:
\* LF, ', A, 0xC3 0xA9 (the two bytes of U+00E9), 0xFF (never valid)
ByteAlphabet == {10, 39, 65, 195, 169, 255}

Message(t, q, r, p) == [topic |-> t, qos |-> q, retain |-> r, payload |-> p]

\* the messages the decoding specification draws
DecodeMsgs ==
    {Message(<<97>>, 0, FALSE, p) : p \in SeqsUpTo(ByteAlphabet, MaxPayloadLen)}

\* the messages the broker publishes while the event loop runs: topics "a"
\* and "a\nb" (a topic may hold any character but U+0000), payloads "A"
\* (valid UTF-8) and 0xFF (not valid UTF-8)
LoopMsgs ==
    {Message(<<97>>, 0, FALSE, <<65>>),
     Message(<<97>>, 1, TRUE, <<255>>),
     Message(<<97, 10, 98>>, 2, FALSE, <<65>>)}

NoMsg == Message(<<>>, 0, FALSE, <<>>)

-----------------------------------------------------------------------------
(* Formatting done by the callbacks *)

\* datetime.now().strftime("%Y-%m-%d %H:%M:%S"): 19 characters, no line break
Timestamp ==
    <<50, 48, 50, 54, 45, 49, 49, 45, 48, 53, 32, 49, 50, 58, 48, 48, 58, 48, 48>>

\* f"[Binary data: {len(msg.payload)} bytes]"
BinaryPlaceholder(bs) ==
    Concat(<< <<91, 66, 105, 110, 97, 114, 121, 32, 100, 97, 116, 97, 58, 32>>,
              IntToText(Len(bs)),
              <<32, 98, 121, 116, 101, 115, 93>> >>)

\* the payload text on_message shows for a bytes payload
DisplayPayload(bs) ==
    LET d == Utf8Decode(bs)
    IN  IF d.ok THEN d.text ELSE BinaryPlaceholder(bs)

\* the console block on_message prints for msg
ConsoleBlock(msg) ==
    [kind    |-> "message",
     topic   |-> msg.topic,
     qos     |-> msg.qos,
     retain  |-> msg.retain,
     payload |-> DisplayPayload(msg.payload)]

\* the text log_to_file interpolates for {msg.payload}
LogPayload(bs) == BytesToStr(bs)

\* the fields log_to_file interpolates into log_entry
LogFields(msg) ==
    [topic   |-> msg.topic,
     qos     |-> msg.qos,
     retain  |-> msg.retain,
     payload |-> LogPayload(msg.payload)]

\* log_entry: the text written for the fields e
LogEntryText(e) ==
    Concat(<< <<91>>, Timestamp,
              <<93, 32, 84, 111, 112, 105, 99, 58, 32>>, e.topic,
              <<44, 32, 81, 111, 83, 58, 32>>, IntToText(e.qos),
              <<44, 32, 82, 101, 116, 97, 105, 110, 101, 100, 58, 32>>,
              BoolToText(e.retain),
              <<44, 32, 80, 97, 121, 108, 111, 97, 100, 58, 32>>, e.payload,
              <<10>> >>)

-----------------------------------------------------------------------------
(* The log file *)

\* content of a file just opened with mode 'w': nothing
OpenTruncate(content) == <<>>

\* content of a file just opened with mode 'a': what it held before
OpenAppend(content) == content

\* log_file.write(log_entry); log_file.flush()
FileWrite(content, e) == Append(content, e)

-----------------------------------------------------------------------------
(* State *)

VARIABLES
    pc,             \* source line about to run, or "exited"
    exitCode,       \* exit status of the process, -1 while it runs
    libPresent,     \* paho.mqtt.client can be imported
    diskLog,        \* entries of the file at the -log path
    logOpen,        \* log_file is open
    openCalls,      \* calls of open() in this run
    closeCalls,     \* calls of log_file.close() in this run
    lateWrites,     \* calls of log_file.write() on the closed file
    console,        \* what this run printed
    cur,            \* msg of the callback in progress
    delivered,      \* calls of on_message_with_log in this run
    totalMsgs,      \* calls of on_message_with_log over all runs
    connectCalls,   \* calls of client.connect() in this run
    subscribeCalls, \* calls of client.subscribe() in this run
    connEvents,     \* the rc of each call of on_connect in this run
    shutdown,       \* disconnect / close / exit0 steps taken after an interrupt
    interrupted,    \* a KeyboardInterrupt arrived with the log file open
    raised,         \* where an exception other than KeyboardInterrupt was raised
    installFailed,  \* pip install failed in this run
    errShown,       \* how the error was printed: none, handler, traceback
    runStart,       \* content of the log file when this run started
    runs            \* runs started so far

vars == <<pc, exitCode, libPresent, diskLog, logOpen, openCalls, closeCalls,
          lateWrites, console, cur, delivered, totalMsgs, connectCalls,
          subscribeCalls, connEvents, shutdown, interrupted, raised,
          installFailed, errShown, runStart, runs>>

\* the variables the log file's life is told by
fileVars == <<diskLog, logOpen, openCalls, closeCalls, lateWrites>>
\* the variables the broker session is told by
mqttVars == <<connectCalls, subscribeCalls, connEvents>>
\* the variables message delivery is told by
msgVars == <<cur, delivered, totalMsgs>>
\* the variables the end of the run is told by
endVars == <<exitCode, shutdown, interrupted, raised, installFailed, errShown>>
\* the variables that outlive a run or describe its start
runVars == <<libPresent, runStart, runs>>

\* a first run of the program, on a log path where no file exists yet
Init ==
    /\ pc = "L66"
    /\ exitCode = -1
    /\ libPresent \in BOOLEAN
    /\ diskLog = <<>>
    /\ logOpen = FALSE
    /\ openCalls = 0
    /\ closeCalls = 0
    /\ lateWrites = 0
    /\ console = <<>>
    /\ cur = NoMsg
    /\ delivered = 0
    /\ totalMsgs = 0
    /\ connectCalls = 0
    /\ subscribeCalls = 0
    /\ connEvents = <<>>
    /\ shutdown = <<>>
    /\ interrupted = FALSE
    /\ raised = "none"
    /\ installFailed = FALSE
    /\ errShown = "none"
    /\ runStart = <<>>
    /\ runs = 1

\* the process ends with status code without closing anything
Exit(code) ==
    /\ pc' = "exited"
    /\ exitCode' = code

\* an exception no except clause catches: traceback, status 1
Uncaught(what) ==
    /\ Exit(1)
    /\ raised' = what
    /\ errShown' = "traceback"

-----------------------------------------------------------------------------
(* main, up to the event loop *)

\* install_paho_mqtt without the sys.exit(1) of line 24
install_paho_mqtt_continue(pipOk) ==
    /\ pc = "L66"
    /\ console' = Append(console,
                         [kind |-> IF libPresent THEN "already_installed"
                                   ELSE IF pipOk THEN "installed"
                                   ELSE "install_failed"])
    /\ installFailed' = (~libPresent /\ ~pipOk)
    /\ libPresent' = (libPresent \/ pipOk)
    /\ pc' = "L70"
    /\ UNCHANGED <<exitCode, shutdown, interrupted, raised, errShown>>
    /\ UNCHANGED <<fileVars, mqttVars, msgVars, runStart, runs>>

\* install_paho_mqtt(): import the library; if that fails run pip, and if pip
\* fails (pipOk = FALSE) print the failure and sys.exit(1)
install_paho_mqtt(pipOk) ==
    /\ pc = "L66"
    /\ console' = Append(console,
                         [kind |-> IF libPresent THEN "already_installed"
                                   ELSE IF pipOk THEN "installed"
                                   ELSE "install_failed"])
    /\ installFailed' = (~libPresent /\ ~pipOk)
    /\ libPresent' = (libPresent \/ pipOk)
    /\ IF libPresent \/ pipOk
       THEN pc' = "L70" /\ exitCode' = exitCode
       ELSE Exit(1)
    /\ UNCHANGED <<shutdown, interrupted, raised, errShown>>
    /\ UNCHANGED <<fileVars, mqttVars, msgVars, runStart, runs>>

\* open(args.log, 'w', ...) in place of mode 'a'
OpenLog_truncating(ok) ==
    /\ pc = "L70"
    /\ openCalls' = openCalls + 1
    /\ IF ok
       THEN /\ diskLog' = OpenTruncate(diskLog)
            /\ logOpen' = TRUE
            /\ pc' = "L85"
            /\ UNCHANGED endVars
       ELSE /\ Uncaught("open")
            /\ UNCHANGED <<diskLog, logOpen, shutdown, interrupted, installFailed>>
    /\ UNCHANGED <<closeCalls, lateWrites, console, mqttVars, msgVars, runVars>>

\* log_file = open(args.log, 'a', encoding='utf-8'), before the try block:
\* an OSError (ok = FALSE) is caught by nothing
OpenLog(ok) ==
    /\ pc = "L70"
    /\ openCalls' = openCalls + 1
    /\ IF ok
       THEN /\ diskLog' = OpenAppend(diskLog)
            /\ logOpen' = TRUE
            /\ pc' = "L85"
            /\ UNCHANGED endVars
       ELSE /\ Uncaught("open")
            /\ UNCHANGED <<diskLog, logOpen, shutdown, interrupted, installFailed>>
    /\ UNCHANGED <<closeCalls, lateWrites, console, mqttVars, msgVars, runVars>>

\* mqtt.Client(...) and the two callback assignments, before the try block
CreateClient ==
    /\ pc = "L85"
    /\ pc' = "L93"
    /\ UNCHANGED <<fileVars, console, mqttVars, msgVars, endVars, runVars>>

\* Ctrl-C between open() and the try block: no except clause is in force, the
\* interpreter dies of SIGINT (status 130)
InterruptInSetup ==
    /\ pc = "L85"
    /\ Exit(130)
    /\ interrupted' = TRUE
    /\ errShown' = "traceback"
    /\ UNCHANGED <<shutdown, raised, installFailed>>
    /\ UNCHANGED <<fileVars, console, mqttVars, msgVars, runVars>>

\* connect() followed at once by client.subscribe("#") in main
Connect_subscribing(outcome) ==
    /\ pc = "L93"
    /\ connectCalls' = connectCalls + 1
    /\ subscribeCalls' = subscribeCalls + 1
    /\ console' = Append(console, [kind |-> "connecting"])
    /\ pc' = CASE outcome = "ok"        -> "L99"
               [] outcome = "raise"     -> "L107"
               [] outcome = "interrupt" -> "L102"
    /\ raised' = IF outcome = "raise" THEN "connect" ELSE raised
    /\ interrupted' = (interrupted \/ outcome = "interrupt")
    /\ UNCHANGED <<exitCode, shutdown, installFailed, errShown>>
    /\ UNCHANGED <<fileVars, connEvents, msgVars, runVars>>

\* client.connect(args.broker, args.port, 60) inside the try block: it
\* returns, raises an OSError, or is interrupted by Ctrl-C
Connect(outcome) ==
    /\ pc = "L93"
    /\ connectCalls' = connectCalls + 1
    /\ console' = Append(console, [kind |-> "connecting"])
    /\ pc' = CASE outcome = "ok"        -> "L99"
               [] outcome = "raise"     -> "L107"
               [] outcome = "interrupt" -> "L102"
    /\ raised' = IF outcome = "raise" THEN "connect" ELSE raised
    /\ interrupted' = (interrupted \/ outcome = "interrupt")
    /\ UNCHANGED <<exitCode, shutdown, installFailed, errShown>>
    /\ UNCHANGED <<fileVars, subscribeCalls, connEvents, msgVars, runVars>>

-----------------------------------------------------------------------------
(* Callbacks, run by client.loop_forever() *)

\* on_connect without the test of rc
on_connect_always_subscribe(rc) ==
    /\ pc = "L99"
    /\ Len(connEvents) < MaxConnEvents
    /\ connEvents' = Append(connEvents, rc)
    /\ subscribeCalls' = subscribeCalls + 1
    /\ console' = Append(console, [kind |-> "connected"])
    /\ UNCHANGED <<pc, connectCalls, fileVars, msgVars, endVars, runVars>>

\* on_connect(client, userdata, flags, rc): rc = 0 prints the status and
\* subscribes to "#", any other rc prints the failure and returns
on_connect(rc) ==
    /\ pc = "L99"
    /\ Len(connEvents) < MaxConnEvents
    /\ connEvents' = Append(connEvents, rc)
    /\ IF rc = 0
       THEN /\ subscribeCalls' = subscribeCalls + 1
            /\ console' = Append(console, [kind |-> "connected"])
       ELSE /\ subscribeCalls' = subscribeCalls
            /\ console' = Append(console, [kind |-> "connect_failed", rc |-> rc])
    /\ UNCHANGED <<pc, connectCalls, fileVars, msgVars, endVars, runVars>>

\* the library calls client.on_message = on_message_with_log with a message
\* of a subscribed topic
Deliver(msg) ==
    /\ pc = "L99"
    /\ subscribeCalls > 0
    /\ totalMsgs < MaxMsgs
    /\ cur' = msg
    /\ delivered' = delivered + 1
    /\ totalMsgs' = totalMsgs + 1
    /\ pc' = "L81"
    /\ UNCHANGED <<fileVars, console, mqttVars, endVars, runVars>>

\* on_message(client, userdata, msg): decode the payload, print the block
on_message ==
    /\ pc = "L81"
    /\ console' = Append(console, ConsoleBlock(cur))
    /\ pc' = "L82"
    /\ UNCHANGED <<fileVars, mqttVars, msgVars, endVars, runVars>>

\* log_to_file(msg): format log_entry, write and flush it; the write raises
\* an OSError when the device fails (ok = FALSE) and a ValueError when the
\* file is closed, and the exception leaves loop_forever()
log_to_file(ok) ==
    /\ pc = "L82"
    /\ lateWrites' = lateWrites + (IF logOpen THEN 0 ELSE 1)
    /\ IF ok /\ logOpen
       THEN /\ diskLog' = FileWrite(diskLog, LogFields(cur))
            /\ pc' = "L99"
            /\ raised' = raised
       ELSE /\ diskLog' = diskLog
            /\ pc' = "L107"
            /\ raised' = "callback"
    /\ UNCHANGED <<logOpen, openCalls, closeCalls, console, mqttVars, msgVars>>
    /\ UNCHANGED <<exitCode, shutdown, interrupted, installFailed, errShown>>
    /\ UNCHANGED runVars

\* Ctrl-C while loop_forever() waits for the network or runs a callback:
\* KeyboardInterrupt leaves the callback where it stands
Interrupt ==
    /\ pc \in {"L99", "L81", "L82"}
    /\ pc' = "L102"
    /\ interrupted' = TRUE
    /\ UNCHANGED <<exitCode, shutdown, raised, installFailed, errShown>>
    /\ UNCHANGED <<fileVars, console, mqttVars, msgVars, runVars>>

-----------------------------------------------------------------------------
(* The except clauses of main *)

\* the KeyboardInterrupt clause without client.disconnect()
HandleKeyboardInterrupt_no_disconnect(outcome) ==
    /\ pc = "L102"
    /\ console' = Append(console, [kind |-> "disconnecting"])
    /\ pc' = "L104"
    /\ UNCHANGED <<fileVars, mqttVars, msgVars, endVars, runVars>>

\* except KeyboardInterrupt: print, then client.disconnect(); an exception
\* or a second Ctrl-C raised there is caught by nothing, as the clauses of a
\* try statement do not guard each other
HandleKeyboardInterrupt(outcome) ==
    /\ pc = "L102"
    /\ console' = Append(console, [kind |-> "disconnecting"])
    /\ shutdown' = Append(shutdown, "disconnect")
    /\ CASE outcome = "ok" ->
              /\ pc' = "L104"
              /\ UNCHANGED <<exitCode, raised, errShown>>
         [] outcome = "raise" ->
              Uncaught("disconnect")
         [] outcome = "interrupt" ->
              /\ Exit(130)
              /\ errShown' = "traceback"
              /\ raised' = raised
    /\ UNCHANGED <<interrupted, installFailed>>
    /\ UNCHANGED <<fileVars, mqttVars, msgVars, runVars>>

\* log_file.close() of the KeyboardInterrupt clause
CloseLog ==
    /\ pc = "L104"
    /\ logOpen' = FALSE
    /\ closeCalls' = closeCalls + 1
    /\ shutdown' = Append(shutdown, "close")
    /\ pc' = "L105"
    /\ UNCHANGED <<diskLog, openCalls, lateWrites, console, mqttVars, msgVars>>
    /\ UNCHANGED <<exitCode, interrupted, raised, installFailed, errShown>>
    /\ UNCHANGED runVars

\* print("Stopped"); main returns and the interpreter exits with status 0
Stopped ==
    /\ pc = "L105"
    /\ console' = Append(console, [kind |-> "stopped"])
    /\ shutdown' = Append(shutdown, "exit0")
    /\ Exit(0)
    /\ UNCHANGED <<interrupted, raised, installFailed, errShown>>
    /\ UNCHANGED <<fileVars, mqttVars, msgVars, runVars>>

\* except Exception as e: print the error, log_file.close(), sys.exit(1)
HandleException ==
    /\ pc = "L107"
    /\ console' = Append(console, [kind |-> "error"])
    /\ errShown' = "handler"
    /\ logOpen' = FALSE
    /\ closeCalls' = closeCalls + 1
    /\ Exit(1)
    /\ UNCHANGED <<diskLog, openCalls, lateWrites, mqttVars, msgVars>>
    /\ UNCHANGED <<shutdown, interrupted, raised, installFailed, runVars>>

\* the program is started again on the same log path
NextRun ==
    /\ pc = "exited"
    /\ runs < MaxRuns
    /\ runs' = runs + 1
    /\ pc' = "L66"
    /\ exitCode' = -1
    /\ logOpen' = FALSE
    /\ openCalls' = 0
    /\ closeCalls' = 0
    /\ lateWrites' = 0
    /\ console' = <<>>
    /\ cur' = NoMsg
    /\ delivered' = 0
    /\ connectCalls' = 0
    /\ subscribeCalls' = 0
    /\ connEvents' = <<>>
    /\ shutdown' = <<>>
    /\ interrupted' = FALSE
    /\ raised' = "none"
    /\ installFailed' = FALSE
    /\ errShown' = "none"
    /\ runStart' = diskLog
    /\ UNCHANGED <<diskLog, libPresent, totalMsgs>>

-----------------------------------------------------------------------------
(* Specifications *)

Next ==
    \/ \E pipOk \in BOOLEAN : install_paho_mqtt(pipOk)
    \/ \E ok \in BOOLEAN : OpenLog(ok)
    \/ CreateClient
    \/ InterruptInSetup
    \/ \E outcome \in {"ok", "raise", "interrupt"} : Connect(outcome)
    \/ \E rc \in ReturnCodes : on_connect(rc)
    \/ \E msg \in LoopMsgs : Deliver(msg)
    \/ on_message
    \/ \E ok \in BOOLEAN : log_to_file(ok)
    \/ Interrupt
    \/ \E outcome \in {"ok", "raise", "interrupt"} : HandleKeyboardInterrupt(outcome)
    \/ CloseLog
    \/ Stopped
    \/ HandleException
    \/ NextRun

Spec == Init /\ [][Next]_vars

\* one message in the hands of on_message_with_log, the log file open
InitDecode ==
    /\ pc = "L81"
    /\ cur \in DecodeMsgs
    /\ exitCode = -1
    /\ libPresent = TRUE
    /\ diskLog = <<>>
    /\ logOpen = TRUE
    /\ openCalls = 1
    /\ closeCalls = 0
    /\ lateWrites = 0
    /\ console = <<[kind |-> "already_installed"], [kind |-> "connecting"],
                   [kind |-> "connected"]>>
    /\ delivered = 1
    /\ totalMsgs = 1
    /\ connectCalls = 1
    /\ subscribeCalls = 1
    /\ connEvents = <<0>>
    /\ shutdown = <<>>
    /\ interrupted = FALSE
    /\ raised = "none"
    /\ installFailed = FALSE
    /\ errShown = "none"
    /\ runStart = <<>>
    /\ runs = 1

NextDecode ==
    \/ on_message
    \/ log_to_file(TRUE)

SpecDecode == InitDecode /\ [][NextDecode]_vars

-----------------------------------------------------------------------------
(* Properties *)

\* s is a beginning of t
IsPrefix(s, t) == Len(s) <= Len(t) /\ SubSeq(t, 1, Len(s)) = s

RECURSIVE LinesIn(_)
\* number of lines (line terminators) of a log file holding the entries es
LinesIn(es) ==
    IF es = <<>> THEN 0
    ELSE CountOf(10, LogEntryText(Head(es))) + LinesIn(Tail(es))

\* console blocks among the console output
BlocksIn(out) == Cardinality({i \in DOMAIN out : out[i].kind = "message"})

\* the callback in progress has returned to the event loop
CallbackDone == pc = "L99" /\ delivered > 0

\* payload text of the last console block / of the last log line
ShownPayload == console[Len(console)].payload
LoggedPayload == diskLog[Len(diskLog)].payload

\* C1: for a payload that is valid UTF-8, the payload text of the console
\* block and the payload text of the log line both equal the decoded string.
C1_DecodedInBothSinks ==
    (CallbackDone /\ Utf8Decode(cur.payload).ok)
        => /\ ShownPayload = Utf8Decode(cur.payload).text
           /\ LoggedPayload = Utf8Decode(cur.payload).text

\* C2: for a payload of N bytes that is not valid UTF-8, the console block
\* and the log line both carry "[Binary data: N bytes]" as the payload.
C2_PlaceholderInBothSinks ==
    (CallbackDone /\ ~Utf8Decode(cur.payload).ok)
        => /\ ShownPayload = BinaryPlaceholder(cur.payload)
           /\ LoggedPayload = BinaryPlaceholder(cur.payload)

\* C3: whenever no callback is in progress, the console blocks printed and
\* the lines appended to the log file in this run are each as many as the
\* messages delivered in this run.
C3_OneBlockOneLinePerMessage ==
    pc \notin {"L81", "L82"}
        => /\ BlocksIn(console) = delivered
           /\ LinesIn(diskLog) - LinesIn(runStart) = delivered

\* C4: a run that was interrupted after the log file was opened ends with
\* log_file.close() called exactly once and no write after the close.
C4_ClosedOnceOnInterrupt ==
    (pc = "exited" /\ interrupted)
        => closeCalls = 1 /\ lateWrites = 0

ShutdownOrder == <<"disconnect", "close", "exit0">>

C6_ExceptionClosesAndExits1 ==
    (pc = "exited" /\ raised # "none")
        => errShown # "none" /\ ~logOpen /\ exitCode = 1

\* the step is a call of on_connect with a non-zero rc
IsRefusedConnect ==
    /\ Len(connEvents') = Len(connEvents) + 1
    /\ connEvents'[Len(connEvents')] # 0

\* C7: a call of on_connect with a non-zero rc prints the failure status,
\* issues no subscribe, calls connect() no further time and stays in the
\* event loop; connect() is called at most once in a run.
C7_RefusedConnectOnlyPrints ==
    [][/\ connectCalls' <= 1
       /\ IsRefusedConnect =>
            /\ console' = Append(console,
                                 [kind |-> "connect_failed",
                                  rc   |-> connEvents'[Len(connEvents')]])
            /\ subscribeCalls' = subscribeCalls
            /\ connectCalls' = connectCalls
            /\ pc = "L99" /\ pc' = "L99"]_vars

C7_Witness ==
    /\ pc = "L99"
    /\ connEvents = <<5>>
    /\ console[Len(console)] = [kind |-> "connect_failed", rc |-> 5]
    /\ subscribeCalls = 0
    /\ connectCalls = 1

\* C8: in one run open() is called at most once, and exactly once in a run
\* that got past it; the content of the log file always begins with the
\* content it had when the run started.
C8_OpenedOnceNeverTruncated ==
    /\ openCalls <= 1
    /\ (pc \notin {"L66", "L70", "exited"} => openCalls = 1)
    /\ (logOpen => openCalls = 1)
    /\ IsPrefix(runStart, diskLog)

C8_Witness ==
    /\ runs = 2
    /\ pc = "exited"
    /\ openCalls = 1
    /\ runStart # <<>>
    /\ Len(diskLog) > Len(runStart)

\* C9: once the installation of the missing library has failed, the process
\* has exited with status 1 without having opened the log file or called
\* connect().
C9_InstallFailureExits1First ==
    installFailed
        => /\ pc = "exited" /\ exitCode = 1
           /\ openCalls = 0 /\ ~logOpen
           /\ connectCalls = 0 /\ connEvents = <<>>

C9_Witness ==
    installFailed /\ pc = "exited" /\ exitCode = 1 /\ ~libPresent

\* C10: the subscribe calls of a run are exactly as many as the calls of
\* on_connect with rc = 0 so far, so none precedes the first of them.
C10_SubscribePerSuccessfulConnect ==
    subscribeCalls = CountOf(0, connEvents)

C10_Witness ==
    connEvents = <<1, 0>> /\ subscribeCalls = 1 /\ delivered > 0

=============================================================================
